---- MODULE Spec2Model ----
(***************************************************************************)
(* A model of node-statsd (src/index.js): the tag formatter, the statsd    *)
(* line encoder, the UDP transport with its completion callbacks, the      *)
(* high-frequency samplers (cpu, memory, network, uptime, disk i/o), the   *)
(* delta-tracked medium-frequency samplers (latency, disk usage, battery), *)
(* the resync tick, the stop handler and the command-line dispatch.        *)
(*                                                                         *)
(* Representation of JavaScript values                                     *)
(*   string   a sequence of one-character strings, <<"h", "1">> is "h1"    *)
(*   number   the double nearest to k / Unit is the integer k, so Unit is  *)
(*            1, 15 * Unit is 15 and Unit \div 2 is 0.5; every number the  *)
(*            providers report and every number the program stores is one  *)
(*            of these. A difference of two of them that no k / Unit       *)
(*            denotes keeps its mantissa and exponent.                     *)
(*   a value whose JavaScript type matters (a tag name, a tag value, the   *)
(*   value of a sample) is a record with a field typeof: Str(s), Num(k),   *)
(*   NaN, Infinity, Undefined                                              *)
(*   array    Arr(seq); undefined where an argument is left out            *)
(***************************************************************************)
EXTENDS Integers, Sequences, FiniteSets, TLC

VARIABLES
    hostname,   \* os.hostname(), read once at load time
    argv,       \* process.argv
    action,     \* what the command-line dispatch did: [kind, options]
    phase,      \* "start" before run() was called, "running" after, "exited" at the end
    socket,     \* the state of the udp socket: "open" or "closed"
    timers,     \* the interval timers run() armed
    latency,    \* let latency (number)
    disks,      \* let disks (object: mount -> number)
    battery,    \* let battery (number)
    pending,    \* provider queries whose callback has not run yet, per kind
    raced,      \* the last sendRaw ran while a filesystem query was pending
    overlapped, \* since the start or the last sendRaw a latency query was issued while another was pending
    fresh,      \* per key: no sample was sent for it since the last sendRaw
    observed,   \* the number of elements the provider callback of the last step was given
    inflight,   \* udp.send calls whose completion callback has not run yet
    console,    \* number of errors console.log printed in the last step
    out,        \* what the last step handed to send, with what send transmitted
    gauge,      \* the latency gauge a statsd server holds after the lines sent so far
    callArgs,   \* the arguments a caller gives statsdFormat
    tagList,    \* the array object the caller passes as moreTags
    callerTags, \* that array as the caller built it
    results,    \* the results of the statsdFormat calls made so far
    steps       \* the number of steps taken since the modules were loaded

vars == <<hostname, argv, action, phase, socket, timers, latency, disks, battery,
          pending, raced, overlapped, fresh, observed, inflight, console, out, gauge,
          callArgs, tagList, callerTags, results, steps>>

(***************************************************************************)
(* Bounds of the model.                                                    *)
(***************************************************************************)
\* Steps of a behaviour: the dispatch, timer ticks, callbacks, the stop.
MaxSteps == 7
\* Calls of statsdFormat a caller makes with one array of tags.
MaxCalls == 2
\* Tags in the array a caller passes.
MaxTags == 2
\* Arguments after the script name on the command line.
MaxArgs == 3

\* One, in the representation of numbers.
Unit == 10 * 1000

Str(s) == [typeof |-> "string", v |-> s]
\* The double nearest to k / Unit.
Num(k) == [typeof |-> "number", kind |-> "finite", v |-> k, m |-> <<>>, e |-> 0]
NaN == [typeof |-> "number", kind |-> "NaN", v |-> 0, m |-> <<>>, e |-> 0]
Infinity == [typeof |-> "number", kind |-> "Infinity", v |-> 0, m |-> <<>>, e |-> 0]
Arr(a) == [typeof |-> "object", v |-> a]
Undefined == [typeof |-> "undefined", v |-> 0]
\* x === undefined
IsUndefined(x) == x.typeof = "undefined"

(***************************************************************************)
(* Strings.                                                                *)
(***************************************************************************)
RECURSIVE Digits(_)
\* The decimal digits of a natural number.
Digits(n) ==
    LET d == <<"0", "1", "2", "3", "4", "5", "6", "7", "8", "9">>[(n % 10) + 1]
    IN  IF n < 10 THEN <<d>> ELSE Digits(n \div 10) \o <<d>>

RECURSIVE StripZeros(_)
StripZeros(s) ==
    IF s # <<>> /\ s[Len(s)] = "0" THEN StripZeros(SubSeq(s, 1, Len(s) - 1)) ELSE s

\* String.prototype.replace(/c/g, d): every occurrence.
ReplaceAll(s, c, d) == [i \in 1..Len(s) |-> IF s[i] = c THEN d ELSE s[i]]

RECURSIVE RemoveFirst(_, _)
\* String.prototype.replace(c, ''): a string pattern matches the first
\* occurrence only.
RemoveFirst(s, c) ==
    IF s = <<>> THEN <<>>
    ELSE IF Head(s) = c THEN Tail(s)
    ELSE <<Head(s)>> \o RemoveFirst(Tail(s), c)

RECURSIVE Join(_, _)
\* Array.prototype.join(sep).
Join(parts, sep) ==
    IF parts = <<>> THEN <<>>
    ELSE IF Len(parts) = 1 THEN parts[1]
    ELSE parts[1] \o sep \o Join(Tail(parts), sep)

(***************************************************************************)
(* Natural numbers of any size: the sequence of their base-Unit digits,    *)
(* the least significant first, without leading zeros; <<>> is 0.          *)
(***************************************************************************)
RECURSIVE BTrim(_)
BTrim(x) == IF x # <<>> /\ x[Len(x)] = 0 THEN BTrim(SubSeq(x, 1, Len(x) - 1)) ELSE x

RECURSIVE BInt(_)
BInt(n) == IF n = 0 THEN <<>> ELSE <<n % Unit>> \o BInt(n \div Unit)

RECURSIVE BTimes(_, _, _)
\* x * c + carry, for c up to 200000.
BTimes(x, c, carry) ==
    IF x = <<>> THEN BInt(carry)
    ELSE LET t == Head(x) * c + carry
         IN  <<t % Unit>> \o BTimes(Tail(x), c, t \div Unit)

RECURSIVE BPlus(_, _, _)
BPlus(x, y, carry) ==
    IF x = <<>> /\ y = <<>> THEN BInt(carry)
    ELSE LET t == (IF x = <<>> THEN 0 ELSE Head(x)) + (IF y = <<>> THEN 0 ELSE Head(y)) + carry
         IN  <<t % Unit>> \o BPlus(IF x = <<>> THEN <<>> ELSE Tail(x),
                                   IF y = <<>> THEN <<>> ELSE Tail(y), t \div Unit)

RECURSIVE BMinusLimbs(_, _, _)
BMinusLimbs(x, y, borrow) ==
    IF x = <<>> THEN <<>>
    ELSE LET t == Head(x) - (IF y = <<>> THEN 0 ELSE Head(y)) - borrow
         IN  <<t % Unit>> \o BMinusLimbs(Tail(x), IF y = <<>> THEN <<>> ELSE Tail(y),
                                         IF t < 0 THEN 1 ELSE 0)
\* x - y, for x >= y.
BMinus(x, y) == BTrim(BMinusLimbs(x, y, 0))

RECURSIVE BCmpAt(_, _, _)
BCmpAt(x, y, i) ==
    IF i = 0 THEN 0
    ELSE IF x[i] < y[i] THEN -1
    ELSE IF x[i] > y[i] THEN 1
    ELSE BCmpAt(x, y, i - 1)
\* -1, 0 or 1 as x is less than, equal to or greater than y.
BCmp(x, y) ==
    IF Len(x) < Len(y) THEN -1
    ELSE IF Len(x) > Len(y) THEN 1
    ELSE BCmpAt(x, y, Len(x))

RECURSIVE BDivAt(_, _, _, _)
BDivAt(x, c, i, rem) ==
    IF i > Len(x) THEN [q |-> <<>>, r |-> rem]
    ELSE LET t == rem * Unit + x[Len(x) + 1 - i]
             rest == BDivAt(x, c, i + 1, t % c)
         IN  [q |-> Append(rest.q, t \div c), r |-> rest.r]
\* The quotient q and the remainder r of x by c, for c up to 200000.
BDiv(x, c) ==
    LET d == BDivAt(x, c, 1, 0)
    IN  [q |-> BTrim(d.q), r |-> d.r]

RECURSIVE BShl(_, _)
\* x * 2^n
BShl(x, n) ==
    IF n = 0 THEN x
    ELSE IF n >= 10 THEN BShl(BTimes(x, 1024, 0), n - 10)
    ELSE BShl(BTimes(x, 2, 0), n - 1)

RECURSIVE BShr(_, _)
\* x \div 2^n
BShr(x, n) ==
    IF n = 0 THEN x
    ELSE IF n >= 10 THEN BShr(BDiv(x, 1024).q, n - 10)
    ELSE BShr(BDiv(x, 2).q, n - 1)

RECURSIVE BTimesPow5(_, _)
\* x * 5^n
BTimesPow5(x, n) ==
    IF n = 0 THEN x
    ELSE IF n >= 5 THEN BTimesPow5(BTimes(x, 3125, 0), n - 5)
    ELSE BTimesPow5(BTimes(x, 5, 0), n - 1)

BPow2(n) == BShl(<<1>>, n)
BOdd(x) == x # <<>> /\ x[1] % 2 = 1

RECURSIVE BNat(_)
\* The natural number x, when it is below 2^31.
BNat(x) == IF x = <<>> THEN 0 ELSE Head(x) + Unit * BNat(Tail(x))

RECURSIVE BitsFrom(_, _, _)
\* The least n' >= n with x < 2^n', given p = 2^n.
BitsFrom(x, n, p) == IF BCmp(x, p) < 0 THEN n ELSE BitsFrom(x, n + 1, BTimes(p, 2, 0))
\* The number of binary digits of x.
Bits(x) ==
    IF x = <<>> THEN 0
    ELSE BitsFrom(x, 13 * (Len(x) - 1), BPow2(13 * (Len(x) - 1)))

\* q or q + 1 as the rest after q compares (c) with a half: a half goes to
\* the even one.
HalfToEven(q, c) == IF c > 0 \/ (c = 0 /\ BOdd(q)) THEN BPlus(q, <<1>>, 0) ELSE q
BRoundFrom(x, n, q) == HalfToEven(q, BCmp(BShl(BMinus(x, BShl(q, n)), 1), BPow2(n)))
\* x / 2^n rounded to the nearest natural number, a half to the even one.
BRound(x, n) == IF n <= 0 THEN BShl(x, -n) ELSE BRoundFrom(x, n, BShr(x, n))

RECURSIVE BDigitsAt(_, _)
BDigitsAt(x, i) ==
    IF i = 0 THEN <<>>
    ELSE (IF i = Len(x) THEN Digits(x[i]) ELSE Tail(Digits(Unit + x[i])))
         \o BDigitsAt(x, i - 1)
\* The decimal digits of x, the most significant first.
BDigits(x) == IF x = <<>> THEN <<"0">> ELSE BDigitsAt(x, Len(x))

RECURSIVE Pow10(_)
\* 10^t
Pow10(t) == IF t >= 4 THEN <<0>> \o Pow10(t - 4) ELSE BTimesPow5(BPow2(t), t)

\* The quotient q and the remainder r of x by 10^t.
BCutAt(x, low, d) == [q |-> d.q, r |-> BTrim(SubSeq(x, 1, low) \o <<d.r>>)]
BCut(x, t) ==
    IF Len(x) <= t \div 4 THEN [q |-> <<>>, r |-> x]
    ELSE BCutAt(x, t \div 4, BDiv(SubSeq(x, t \div 4 + 1, Len(x)), BNat(Pow10(t % 4))))

(***************************************************************************)
(* IEEE 754 doubles: [neg, m, e] is (-1)^neg * m * 2^-e with               *)
(* 2^52 <= m < 2^53, and m = <<>> is zero.                                 *)
(***************************************************************************)
Zero == [neg |-> FALSE, m |-> <<>>, e |-> 0]

Normal(neg, m, e) ==
    IF BCmp(m, BPow2(53)) = 0 THEN [neg |-> neg, m |-> BPow2(52), e |-> e - 1]
    ELSE [neg |-> neg, m |-> m, e |-> e]
FlAt(neg, x, e, n) == Normal(neg, BRound(x, n), e - n)
\* The double nearest to (-1)^neg * x * 2^-e, a half to the even mantissa.
Fl(neg, x, e) == IF x = <<>> THEN Zero ELSE FlAt(neg, x, e, Bits(x) - 53)

RECURSIVE Log2(_, _)
\* The largest n with b * 2^n <= a, for a >= b.
Log2(a, b) == IF 2 * b > a THEN 0 ELSE 1 + Log2(a, 2 * b)

\* The double nearest to a quotient, from its binary digits t.q * 2^-e (at
\* least 54 of them) and the remainder t.r of the division.
Sticky(neg, t, e) ==
    Fl(neg, BPlus(BShl(t.q, 1), IF t.r = 0 THEN <<>> ELSE <<1>>, 0), e + 1)

\* a / b for natural numbers a and b up to 200000, b not 0.
DDiv(a, b) == Sticky(FALSE, BDiv(BShl(BInt(a), 75), b), 75)

DoubleAt(neg, a, e) == Sticky(neg, BDiv(BShl(BInt(a), e), Unit), e)
DoubleOf(neg, a) ==
    DoubleAt(neg, a, IF a >= Unit THEN 53 - Log2(a, Unit) ELSE 54 + Log2(Unit - 1, a))
\* The double of the number Num(k): the one nearest to k / Unit.
Double(k) == IF k = 0 THEN Zero ELSE DoubleOf(k < 0, IF k < 0 THEN -k ELSE k)

DMinusFrom(neg, a, b, e, c) ==
    IF c = 0 THEN Zero
    ELSE Fl(IF c > 0 THEN neg ELSE ~neg, IF c > 0 THEN BMinus(a, b) ELSE BMinus(b, a), e)
DMinusAt(x, y, a, b, e) ==
    IF x.neg # y.neg THEN Fl(x.neg, BPlus(a, b, 0), e)
    ELSE DMinusFrom(x.neg, a, b, e, BCmp(a, b))
DMinusTo(x, y, e) == DMinusAt(x, y, BShl(x.m, e - x.e), BShl(y.m, e - y.e), e)
\* x - y
DMinus(x, y) ==
    IF x.m = <<>> THEN [y EXCEPT !.neg = ~y.neg /\ y.m # <<>>]
    ELSE IF y.m = <<>> THEN x
    ELSE DMinusTo(x, y, IF x.e > y.e THEN x.e ELSE y.e)

\* x * c for a natural number c up to 200000.
DTimes(x, c) == Fl(x.neg, BTimes(x.m, c, 0), x.e)

HalfUp(neg, below, c) ==
    IF neg THEN -(below + (IF c > 0 THEN 1 ELSE 0)) ELSE below + (IF c >= 0 THEN 1 ELSE 0)
MathRoundFrom(x, below) ==
    HalfUp(x.neg, BNat(below), BCmp(BMinus(x.m, BShl(below, x.e)), BPow2(x.e - 1)))
\* Math.round(x) for |x| < 10^8: the integer nearest to x, a half towards
\* +Infinity.
MathRound(x) == IF x.m = <<>> THEN 0 ELSE MathRoundFrom(x, BShr(x.m, x.e))

RECURSIVE Zeros(_)
Zeros(n) == IF n <= 0 THEN <<>> ELSE <<"0">> \o Zeros(n - 1)

\* d is less than bound, or no more when closed.
Within(d, bound, closed) == BCmp(d, bound) < 0 \/ (closed /\ BCmp(d, bound) = 0)

\* A multiple of unit is within lo below or hi above the number cut.
Reads(cut, unit, lo, hi, closed) ==
    \/ cut.r = <<>>
    \/ Within(cut.r, lo, closed)
    \/ Within(BMinus(unit, cut.r), hi, closed)

RECURSIVE Shortest(_, _, _, _, _)
\* The largest t' >= t for which a multiple of 10^t' is within lo below or
\* hi above v.
Shortest(v, t, lo, hi, closed) ==
    IF Reads(BCut(v, t + 1), Pow10(t + 1), lo, hi, closed)
    THEN Shortest(v, t + 1, lo, hi, closed)
    ELSE t

\* Of the multiples q and q + 1 of a unit next to a number r above the
\* first and up below the second, the one within the bounds, and the nearer
\* of two.
Nearer(q, r, up, lo, hi, closed) ==
    IF r # <<>> /\ Within(up, hi, closed) /\ (~Within(r, lo, closed) \/ BCmp(up, r) < 0)
    THEN BPlus(q, <<1>>, 0)
    ELSE q
NearerOf(cut, unit, lo, hi, closed) ==
    Nearer(cut.q, cut.r, BMinus(unit, cut.r), lo, hi, closed)

\* The decimal with the given digits and point digits before the point.
Placed(neg, digits, point) ==
    (IF neg THEN <<"-">> ELSE <<>>)
    \o (IF point >= Len(digits) THEN digits \o Zeros(point - Len(digits))
        ELSE IF point > 0
        THEN SubSeq(digits, 1, point) \o <<".">> \o SubSeq(digits, point + 1, Len(digits))
        ELSE <<"0", ".">> \o Zeros(-point) \o digits)
Place(neg, digits, shift) == Placed(neg, digits, Len(digits) + shift)

PrintedAt(neg, v, lo, hi, closed, p, t) ==
    Place(neg, BDigits(NearerOf(BCut(v, t), Pow10(t), lo, hi, closed)), t - p)
PrintedFrom(neg, v, lo, hi, closed, p, n) ==
    PrintedAt(neg, v, lo, hi, closed, p, Shortest(v, IF n > 17 THEN n - 17 ELSE 0, lo, hi, closed))
Printed(neg, v, lo, hi, closed, p) ==
    PrintedFrom(neg, v, lo, hi, closed, p, Len(BDigits(v)))
\* Number::toString(x) for 1e-6 <= |x| < 1e16: the shortest decimal that
\* reads back as x (seventeen digits always do), without exponent. x is
\* 4m * 5^p / 10^p with p = e + 2, and the doubles next to it are
\* 2 * 5^p / 10^p away on each side (half as far below when m is 2^52); a
\* decimal that far away reads back as x when m is even.
DoubleToString(x) ==
    IF x.m = <<>> THEN <<"0">>
    ELSE Printed(x.neg, BTimesPow5(BShl(x.m, 2), x.e + 2),
                 BTimesPow5(IF BCmp(x.m, BPow2(52)) = 0 THEN <<1>> ELSE <<2>>, x.e + 2),
                 BTimesPow5(<<2>>, x.e + 2), ~BOdd(x.m), x.e + 2)

\* Number::toString of the number Num(k): the decimal k / Unit itself, the
\* shortest that reads back as the double nearest to it.
NumToString(k) ==
    (IF k < 0 THEN <<"-">> \o Digits((-k) \div Unit) ELSE Digits(k \div Unit))
    \o (IF k % Unit = 0 THEN <<>>
        ELSE <<".">> \o StripZeros(Tail(Digits(Unit + ((IF k < 0 THEN -k ELSE k) % Unit)))))

\* `${x}` in a template literal.
Template(x) ==
    CASE x.typeof = "string" -> x.v
      [] x.typeof = "number" ->
            IF x.kind = "NaN" THEN <<"N", "a", "N">>
            ELSE IF x.kind = "Infinity" THEN <<"I", "n", "f", "i", "n", "i", "t", "y">>
            ELSE IF x.m = <<>> THEN NumToString(x.v)
            ELSE DoubleToString([neg |-> x.v < 0, m |-> x.m, e |-> x.e])
      [] OTHER -> <<"u", "n", "d", "e", "f", "i", "n", "e", "d">>

\* The number next to k / Unit that the double d is: k / Unit itself when d
\* is the double nearest to it.
Near(k, d) == IF d = Double(k) THEN Num(k) ELSE [Num(k) EXCEPT !.m = d.m, !.e = d.e]
\* a - b for the numbers Num(a) and Num(b). Whole sixteenths are doubles
\* themselves and so is their difference; any other difference is the double
\* nearest to the difference of the two doubles, which is Num(a - b) or a
\* double next to it.
Minus(a, b) ==
    IF a = b \/ (a % (Unit \div 16) = 0 /\ b % (Unit \div 16) = 0) THEN Num(a - b)
    ELSE Near(a - b, DMinus(Double(a), Double(b)))

\* Math.round(x) for the number Num(k): no k / Unit but a half itself is as
\* near to a half as its double.
Round0(k) == ((k + Unit \div 2) \div Unit) * Unit

\* Math.round(x * 1000) / 1000 for the number Num(k): the product is a double
\* next to k / 10, which decides the halves.
Round3(k) ==
    IF k % 10 # 5 THEN ((k + 5) \div 10) * 10
    ELSE MathRound(DTimes(Double(k), 1000)) * (Unit \div 1000)

\* Math.round(a / b * 10000) / 10000 for natural numbers a and b up to
\* 200000: the product is a double next to 10000 * a / b, which decides the
\* halves; any other quotient is further from a half than its double is
\* from it.
Ratio4(a, b) ==
    IF b = 0 THEN (IF a = 0 THEN NaN ELSE Infinity)
    ELSE IF 2 * ((a * Unit) % b) # b
    THEN Num((a * Unit) \div b + (IF 2 * ((a * Unit) % b) > b THEN 1 ELSE 0))
    ELSE Num(MathRound(DTimes(DDiv(a, b), 10 * 1000)) * (Unit \div (10 * 1000)))
prefix == <<"_", "t", "_">>
allowedMetrics == {<<"c">>, <<"s">>, <<"g">>, <<"m", "s">>}

(***************************************************************************)
(* tag and statsdFormat.                                                   *)
(***************************************************************************)
format(input) ==
    IF input.typeof = "string"
    THEN Str(ReplaceAll(ReplaceAll(input.v, ".", "-"), " ", "-"))
    ELSE input

tag(name, value) == [tag |-> format(name), value |-> format(value)]

\* statsdFormat without its type check.
statsdFormatAnyType(metric, value, type, moreTags) ==
    LET given == IF IsUndefined(moreTags) THEN <<>> ELSE moreTags.v
        pushed == Append(given, tag(Str(<<"h", "o", "s", "t", "n", "a", "m", "e">>), Str(hostname)))
        tags == Join([i \in 1..Len(pushed) |->
                        prefix \o Template(pushed[i].tag) \o <<".">>
                               \o Template(pushed[i].value)], <<".">>)
    IN  [threw |-> FALSE,
         line |-> metric \o <<".">> \o tags \o <<":">> \o Template(value)
                         \o <<"|">> \o type,
         tags |-> pushed,
         moreTags |-> IF IsUndefined(moreTags) THEN Undefined ELSE Arr(pushed)]

\* The result of a call: whether it threw, the line it returned, the tag
\* objects it rendered, and the array object passed as moreTags as the call
\* left it.
statsdFormat(metric, value, type, moreTags) ==
    IF type \notin allowedMetrics
    THEN [threw |-> TRUE, line |-> <<>>, tags |-> <<>>, moreTags |-> moreTags]
    ELSE LET given == IF IsUndefined(moreTags) THEN <<>> ELSE moreTags.v
             pushed == Append(given, tag(Str(<<"h", "o", "s", "t", "n", "a", "m", "e">>), Str(hostname)))
             tags == Join([i \in 1..Len(pushed) |->
                             prefix \o Template(pushed[i].tag) \o <<".">>
                                    \o Template(pushed[i].value)], <<".">>)
         IN  [threw |-> FALSE,
              line |-> metric \o <<".">> \o tags \o <<":">> \o Template(value)
                              \o <<"|">> \o type,
              tags |-> pushed,
              moreTags |-> IF IsUndefined(moreTags) THEN Undefined ELSE Arr(pushed)]

(***************************************************************************)
(* Transport.                                                              *)
(***************************************************************************)
debug == FALSE

\* The datagrams send(message) hands to udp.send, in order.
send(message) ==
    LET joined == IF message.typeof = "object"
                  THEN Join(message.v, <<"\n">>)
                  ELSE message.v
    IN  IF ~debug THEN <<joined>> ELSE <<>>

\* One entry of out: a send(statsdFormat(...)) a sampler evaluated. r is what
\* statsdFormat returned; when it threw, send was never called. The entry
\* names the sample: src and key (which sampler, which tracked key), reading
\* (the absolute reading), prev (the stored value the sampler read) and value
\* (the value it encoded).
Emit(src, key, reading, prev, value, r) ==
    [src |-> src, key |-> key, reading |-> reading, prev |-> prev,
     value |-> value, threw |-> r.threw, msg |-> Str(r.line),
     dgrams |-> IF r.threw THEN <<>> ELSE send(Str(r.line))]

\* An entry of out for a message that is an array of lines: the exception of
\* any of the calls that build the array leaves send uncalled.
EmitArray(src, rs) ==
    LET threw == \E i \in DOMAIN rs : rs[i].threw
        message == Arr([i \in DOMAIN rs |-> rs[i].line])
    IN  [src |-> src, key |-> <<>>, reading |-> Undefined,
         prev |-> Undefined, value |-> Undefined, threw |-> threw,
         msg |-> message, dgrams |-> IF threw THEN <<>> ELSE send(message)]

RECURSIVE Datagrams(_)
\* The number of datagrams the entries of o transmitted.
Datagrams(o) == IF o = <<>> THEN 0 ELSE Len(Head(o).dgrams) + Datagrams(Tail(o))

deltaVars == <<latency, disks, battery>>
queryVars == <<pending, raced, overlapped, fresh>>
cliVars == <<argv, action>>
callVars == <<callArgs, tagList, callerTags, results>>
udpVars == <<inflight, console, socket>>

\* The promise job queue is empty. A timer, the callback of a provider called
\* with a callback, a completion callback of udp.send and the stop handler
\* run from the event loop, which takes the next of them only when no
\* promise job is queued: the second .then of getNetworkUse is queued by
\* the first and runs before any of them.
Drained == pending.usable = <<>>

\* A completion callback that sends the datagram again when it failed.
SendDoneRetry(err) ==
    /\ phase = "running"
    /\ Drained
    /\ inflight > 0
    /\ inflight' = IF err THEN inflight ELSE inflight - 1
    /\ console' = IF err THEN 1 ELSE 0
    /\ out' = <<>>
    /\ observed' = 0
    /\ UNCHANGED <<hostname, phase, socket, timers, deltaVars, queryVars, cliVars, callVars,
                   gauge>>

\* A completion callback that closes the socket, as sendMessage once did:
\* (err) => { console.log(err); udp.close(); }
SendDoneClosing(err) ==
    /\ phase = "running"
    /\ Drained
    /\ inflight > 0
    /\ inflight' = inflight - 1
    /\ console' = IF err THEN 1 ELSE 0
    /\ socket' = "closed"
    /\ out' = <<>>
    /\ observed' = 0
    /\ UNCHANGED <<hostname, phase, timers, deltaVars, queryVars, cliVars, callVars, gauge>>

\* The completion callback of udp.send: (err) => { if (err) console.log(err) }
SendDone(err) ==
    /\ phase = "running"
    /\ Drained
    /\ inflight > 0
    /\ inflight' = inflight - 1
    /\ console' = IF err THEN 1 ELSE 0
    /\ out' = <<>>
    /\ observed' = 0
    /\ UNCHANGED <<hostname, phase, socket, timers, deltaVars, queryVars, cliVars, callVars,
                   gauge>>

(***************************************************************************)
(* The command line.                                                       *)
(***************************************************************************)
\* process.argv[i]; an index past the end reads undefined.
ArgvAt(i) == IF i + 1 \in DOMAIN argv THEN argv[i + 1] ELSE "undefined"

\* A property an object literal never set.
NotSet == "not set"

\* The options object of the --add branch.
addOptions ==
    LET username == IF Len(argv) > 3 THEN ArgvAt(3) ELSE NotSet
        password == IF Len(argv) = 4 THEN ArgvAt(4) ELSE NotSet
    IN  [args |-> <<"--run">>, username |-> username, password |-> password]

NoOptions == [args |-> <<>>, username |-> NotSet, password |-> NotSet]

\* The branch the if / else if chain takes.
dispatch ==
    IF ArgvAt(2) = "--add" /\ Len(argv) >= 3 THEN [kind |-> "add", options |-> addOptions]
    ELSE IF ArgvAt(2) = "--remove" THEN [kind |-> "remove", options |-> NoOptions]
    ELSE IF ArgvAt(2) = "--run" THEN [kind |-> "run", options |-> NoOptions]
    ELSE [kind |-> "usage", options |-> NoOptions]

(***************************************************************************)
(* The high-frequency samplers.                                            *)
(***************************************************************************)
S_cpu_usage == <<"c", "p", "u", "_", "u", "s", "a", "g", "e">>
S_ram == <<"r", "a", "m">>
S_swap == <<"s", "w", "a", "p">>
S_network == <<"n", "e", "t", "w", "o", "r", "k">>
S_uptime == <<"u", "p", "t", "i", "m", "e">>
S_diskio == <<"d", "i", "s", "k", "i", "o">>
S_c == <<"c">>

\* What the load, memory, network, clock and disk i/o providers may report.
\* Memory is counted in units of 2^30 bytes; the quotients of the program
\* are those of the byte counts.
Loads == {<<[load |-> 12 * Unit + Unit \div 2], [load |-> 87 * Unit + 4000]>>}
Mems ==
    {[total |-> 8, free |-> 2, used |-> 6, active |-> 3,
      swaptotal |-> 0, swapfree |-> 0, swapused |-> 0]}
eth0 == <<"e", "t", "h", "0">>
Interfaces ==
    {<<[iface |-> <<"l", "o">>, internal |-> TRUE], [iface |-> eth0, internal |-> FALSE]>>,
     <<[iface |-> eth0, internal |-> FALSE], [iface |-> <<"w", "l", "a", "n", "0">>, internal |-> FALSE]>>}
NetworkStats == {[rx_sec |-> 1200 * Unit + Unit \div 2, tx_sec |-> 300 * Unit]}
Uptimes == {3600 * Unit}
Platforms == {<<"l", "i", "n", "u", "x">>, <<"w", "i", "n", "3", "2">>}
DisksIO == {[rIO_sec |-> 5 * Unit, wIO_sec |-> 7 * Unit]}

\* The callback of si.currentLoad: data.cpus.forEach((cpu, index) => ...)
forEachCpu(cpus) ==
    [i \in DOMAIN cpus |->
        LET load == Round0(cpus[i].load)
        IN  Emit("currentLoad", <<>>, Num(load), Undefined, Num(load),
                 statsdFormat(S_cpu_usage, Num(load), S_c,
                              Arr(<<tag(Str(<<"c", "p", "u">>), Num((i - 1) * Unit))>>)))]

\* The callback of si.mem: one message of five lines.
memCallback(data) ==
    LET ram(elem, amount) ==
            statsdFormat(S_ram, Ratio4(amount, data.total), S_c,
                         Arr(<<tag(Str(<<"m", "e", "m", "o", "r", "y">>), Str(elem))>>))
        swap(elem, amount) ==
            statsdFormat(S_swap, Ratio4(amount, data.swaptotal), S_c,
                         Arr(<<tag(Str(<<"m", "e", "m", "o", "r", "y">>), Str(elem))>>))
    IN  <<EmitArray("mem", <<ram(<<"f", "r", "e", "e">>, data.free), ram(<<"u", "s", "e", "d">>, data.used),
                              ram(<<"a", "c", "t", "i", "v", "e">>, data.active),
                              swap(<<"f", "r", "e", "e">>, data.swapfree), swap(<<"u", "s", "e", "d">>, data.swapused)>>)>>

\* interfaces.filter(iface => !iface.internal).map(iface => iface.iface)
usableInterfaces(interfaces) ==
    LET external(iface) == ~iface.internal
        kept == SelectSeq(interfaces, external)
    IN  [i \in DOMAIN kept |-> kept[i].iface]

\* The callback of si.networkStats(iface, ...).
networkStatsCallback(iface, data) ==
    LET line(amount, direction) ==
            statsdFormat(S_network, Num(amount), S_c,
                         Arr(<<tag(Str(<<"i", "n", "t", "e", "r", "f", "a", "c", "e">>), Str(iface)),
                               tag(Str(<<"d", "i", "r", "e", "c", "t", "i", "o", "n">>), Str(direction))>>))
    IN  IF data.tx_sec > -Unit /\ data.rx_sec > -Unit
        THEN <<EmitArray("networkStats", <<line(data.rx_sec, <<"r", "x">>), line(data.tx_sec, <<"t", "x">>)>>)>>
        ELSE <<>>

\* getUptime: send(statsdFormat('uptime', si.time().uptime, 'c'))
getUptime(uptime) ==
    <<Emit("getUptime", <<>>, Num(uptime), Undefined, Num(uptime),
           statsdFormat(S_uptime, Num(uptime), S_c, Undefined))>>

\* The callback of si.disksIO: two sends. The exception of the first call
\* leaves the second unevaluated.
disksIOCallback(data) ==
    LET line(amount, direction) ==
            Emit("disksIO", <<>>, Num(amount), Undefined, Num(amount),
                 statsdFormat(S_diskio, Num(amount), S_c,
                              Arr(<<tag(Str(<<"d", "i", "r", "e", "c", "t", "i", "o", "n">>), Str(direction))>>)))
        read == line(data.rIO_sec, <<"r", "e", "a", "d">>)
    IN  IF read.threw THEN <<read>> ELSE <<read, line(data.wIO_sec, <<"w", "r", "i", "t", "e">>)>>

(***************************************************************************)
(* The delta-tracked samplers.                                             *)
(***************************************************************************)
S_latency == <<"l", "a", "t", "e", "n", "c", "y">>
S_battery == <<"b", "a", "t", "t", "e", "r", "y">>
S_disk_usage == <<"d", "i", "s", "k", "_", "u", "s", "a", "g", "e">>
S_g == <<"g">>

\* -1, the value latency and battery hold when unset.
Unset == -Unit

\* if (value >= 0) { value = `+${value}` }
signed(value) ==
    IF value.kind = "Infinity" \/ (value.kind = "finite" /\ value.v >= 0)
    THEN Str(<<"+">> \o Template(value))
    ELSE value

\* What the ping, filesystem and battery providers may report.
LatencyReadings == {20 * Unit, 35 * Unit}
rootDevice(use) ==
    [use |-> use, mount |-> <<"/">>, type |-> <<"e", "x", "t", "4">>, fs |-> <<"/", "d", "e", "v", "/", "s", "d", "a">>]
dataDevice(use) ==
    [use |-> use, mount |-> <<"D", ":">>, type |-> <<"N", "T", "F", "S">>, fs |-> <<"D", ":">>]
FsResults ==
    {<<rootDevice(10 * Unit), dataDevice(45 * Unit + 6704)>>,
     <<rootDevice(15 * Unit), dataDevice(45 * Unit + 6600)>>}
BatteryResults ==
    {[hasbattery |-> FALSE, percent |-> 0]}
    \cup {[hasbattery |-> TRUE, percent |-> p * Unit] : p \in {80, 70}}

MountKeys == {<<"/">>, <<"D">>}
Keys == {S_latency, S_battery} \cup MountKeys
AllFresh == [k \in Keys |-> TRUE]
NonePending ==
    [latency |-> 0, disks |-> 0, battery |-> 0, currentLoad |-> 0, mem |-> 0,
     networkInterfaces |-> 0, usable |-> <<>>, networkStats |-> [n \in {} |-> 0],
     osInfo |-> 0, disksIO |-> 0]

\* What a property of disks reads through when disks has no such property
\* of its own: the members of Object.prototype.
ObjectPrototypeNames ==
    {<<"c", "o", "n", "s", "t", "r", "u", "c", "t", "o", "r">>, <<"h", "a", "s", "O", "w", "n", "P", "r", "o", "p", "e", "r", "t", "y">>, <<"i", "s", "P", "r", "o", "t", "o", "t", "y", "p", "e", "O", "f">>, <<"p", "r", "o", "p", "e", "r", "t", "y", "I", "s", "E", "n", "u", "m", "e", "r", "a", "b", "l", "e">>,
     <<"t", "o", "L", "o", "c", "a", "l", "e", "S", "t", "r", "i", "n", "g">>, <<"t", "o", "S", "t", "r", "i", "n", "g">>, <<"v", "a", "l", "u", "e", "O", "f">>, <<"_", "_", "p", "r", "o", "t", "o", "_", "_">>, <<"_", "_", "d", "e", "f", "i", "n", "e", "G", "e", "t", "t", "e", "r", "_", "_">>,
     <<"_", "_", "d", "e", "f", "i", "n", "e", "S", "e", "t", "t", "e", "r", "_", "_">>, <<"_", "_", "l", "o", "o", "k", "u", "p", "G", "e", "t", "t", "e", "r", "_", "_">>, <<"_", "_", "l", "o", "o", "k", "u", "p", "S", "e", "t", "t", "e", "r", "_", "_">>}

\* The entries o of a step, each marked first when it is the first sample sent
\* for its key since the last sendRaw, and the keys left fresh after them.
Sampled(o, k) == {i \in DOMAIN o : o[i].key = k /\ ~o[i].threw}
Marked(o, f) ==
    [i \in DOMAIN o |->
        [first |-> /\ o[i].key \in Keys
                   /\ f[o[i].key]
                   /\ \A j \in Sampled(o, o[i].key) : j >= i] @@ o[i]]
Observe(f, o) == [k \in Keys |-> f[k] /\ Sampled(o, k) = {}]

\* The numbers a latency line may carry: a reading, the baseline 0, or the
\* difference between a reading and a stored value.
Amounts ==
    LET stored == LatencyReadings \cup {Unset, 0}
    IN  stored \cup {a - b : a \in LatencyReadings, b \in stored}
                \cup {a - (b - c) : a, b \in LatencyReadings, c \in stored}

\* The number a value text of a line denotes, with or without a leading '+'.
Parse(text) ==
    CHOOSE k \in Amounts : text \in {NumToString(k), <<"+">> \o NumToString(k)}

RECURSIVE gaugeAfter(_, _)
\* The latency gauge after the lines of o: a value text with a leading sign
\* is added to the gauge, any other sets it.
gaugeAfter(g, o) ==
    IF o = <<>> THEN g
    ELSE LET e == Head(o)
             text == Template(e.value)
             next == IF e.key # S_latency \/ e.threw THEN g
                     ELSE IF Head(text) \in {"+", "-"} THEN g + Parse(text)
                     ELSE Parse(text)
         IN  gaugeAfter(next, Tail(o))

\* getMedFreq, called with latency = lat: getLatency sends the baseline 0
\* when latency is unset; the three provider queries are issued.
getMedFreqOut(lat) ==
    IF lat = Unset
    THEN <<Emit("getLatency", S_latency, Undefined, Num(lat), Num(0),
                statsdFormat(S_latency, Num(0), S_g, Undefined))>>
    ELSE <<>>

getMedFreqIssue(p) ==
    [p EXCEPT !.latency = @ + 1, !.disks = @ + 1, !.battery = @ + 1]

\* getHighFreq: the four provider queries getCpuUsage, getMemory,
\* getNetworkUse and getDiskIO issue.
getHighFreqIssue(p) ==
    [p EXCEPT !.currentLoad = @ + 1, !.mem = @ + 1, !.networkInterfaces = @ + 1,
              !.osInfo = @ + 1]

\* A callback of si.inetLatency that stores the delta it sent.
latencyCallbackStoringDelta(ms, lat) ==
    LET value == signed(Minus(ms, lat))
        r == statsdFormat(S_latency, value, S_g, Undefined)
    IN  [out |-> <<Emit("inetLatency", S_latency, Num(ms), Num(lat), value, r)>>,
         latency |-> IF r.threw THEN lat ELSE ms - lat]

\* The callback of si.inetLatency.
latencyCallback(ms, lat) ==
    LET value == signed(Minus(ms, lat))
        r == statsdFormat(S_latency, value, S_g, Undefined)
    IN  [out |-> <<Emit("inetLatency", S_latency, Num(ms), Num(lat), value, r)>>,
         latency |-> IF r.threw THEN lat ELSE ms]

RECURSIVE forEachDevice(_, _)
\* The callback of si.fsSize: mounted.forEach(device => ...), starting with
\* disks = d. disks[mount] reads the property of disks, or what
\* Object.prototype holds under that name (a function, or the prototype
\* itself): minus a number that is NaN. disks[mount] = calc sets the
\* property, but for __proto__, where a number is ignored.
forEachDevice(mounted, d) ==
    IF mounted = <<>> THEN [out |-> <<>>, disks |-> d]
    ELSE LET device == Head(mounted)
             calc == Round3(device.use)
             mount == RemoveFirst(device.mount, ":")
             own == mount \in DOMAIN d
             known == own \/ mount \in ObjectPrototypeNames
             value == IF own THEN signed(Minus(d[mount], calc))
                      ELSE IF known THEN signed(NaN)
                      ELSE Num(calc)
             r == statsdFormat(S_disk_usage, value, S_g,
                      Arr(<<tag(Str(<<"t", "y", "p", "e">>), Str(device.type)),
                            tag(Str(<<"m", "o", "u", "n", "t">>), Str(mount)),
                            tag(Str(<<"f", "s">>), Str(RemoveFirst(device.fs, ":")))>>))
             entry == Emit("fsSize", mount, Num(calc),
                           IF own THEN Num(d[mount]) ELSE Undefined, value, r)
             stored == IF mount = <<"_", "_", "p", "r", "o", "t", "o", "_", "_">> THEN d ELSE (mount :> calc) @@ d
             rest == forEachDevice(Tail(mounted), stored)
         IN  IF r.threw THEN [out |-> <<entry>>, disks |-> d]
             ELSE [out |-> <<entry>> \o rest.out, disks |-> rest.disks]

\* The callback of si.battery.
batteryCallback(data, bat) ==
    IF ~data.hasbattery THEN [out |-> <<>>, battery |-> bat]
    ELSE IF bat = Unset
    THEN LET r == statsdFormat(S_battery, Num(data.percent), S_g, Undefined)
         IN  [out |-> <<Emit("battery", S_battery, Num(data.percent), Num(bat),
                             Num(data.percent), r)>>,
              battery |-> IF r.threw THEN bat ELSE data.percent]
    ELSE LET value == signed(Minus(data.percent, bat))
             r == statsdFormat(S_battery, value, S_g, Undefined)
         IN  [out |-> <<Emit("battery", S_battery, Num(data.percent), Num(bat),
                             value, r)>>,
              battery |-> bat]

(***************************************************************************)
(* The program: command-line dispatch, run(), the three interval timers,   *)
(* the provider callbacks, the completion callbacks of udp.send and the    *)
(* stop handler. Every datagram a step hands to udp.send is recorded in    *)
(* out and counted in inflight until its completion callback has run.      *)
(***************************************************************************)
\* What every step does with the entries o it evaluated, n the number of
\* elements a provider gave it and f the keys that were fresh: each send
\* hands one datagram to udp.send.
Hands(o, f, n) ==
    /\ out' = Marked(o, f)
    /\ fresh' = Observe(f, o)
    /\ gauge' = gaugeAfter(gauge, o)
    /\ observed' = n
    /\ inflight' = inflight + Datagrams(o)
    /\ console' = 0

\* The top-level if / else if chain. The --run branch calls run(), which arms
\* the three interval timers and calls getMedFreq() once.
Dispatch ==
    /\ action.kind = "none"
    /\ action' = dispatch
    /\ IF dispatch.kind = "run"
       THEN /\ phase' = "running"
            /\ timers' = {"getHighFreq", "getMedFreq", "sendRaw"}
            /\ pending' = getMedFreqIssue(pending)
            /\ Hands(getMedFreqOut(latency), fresh, 0)
       ELSE UNCHANGED <<phase, timers, pending, out, fresh, gauge, observed, inflight, console>>
    /\ UNCHANGED <<hostname, argv, socket, deltaVars, raced, overlapped, callVars>>

\* The getHighFreq interval fires: getCpuUsage, getMemory, getNetworkUse and
\* getDiskIO issue a query each, getUptime sends.
getHighFreq(uptime) ==
    /\ phase = "running"
    /\ Drained
    /\ "getHighFreq" \in timers
    /\ pending' = getHighFreqIssue(pending)
    /\ Hands(getUptime(uptime), fresh, 0)
    /\ UNCHANGED <<hostname, phase, socket, timers, deltaVars, raced, overlapped,
                   cliVars, callVars>>

\* The getMedFreq interval fires.
getMedFreq ==
    /\ phase = "running"
    /\ Drained
    /\ "getMedFreq" \in timers
    /\ pending' = getMedFreqIssue(pending)
    /\ overlapped' = (overlapped \/ pending.latency > 0)
    /\ Hands(getMedFreqOut(latency), fresh, 0)
    /\ UNCHANGED <<hostname, phase, socket, timers, deltaVars, raced, cliVars, callVars>>

\* A sendRaw that leaves disks as it is.
sendRawKeepingDisks ==
    /\ phase = "running"
    /\ Drained
    /\ "sendRaw" \in timers
    /\ battery' = Unset
    /\ latency' = Unset
    /\ disks' = disks
    /\ pending' = getMedFreqIssue(pending)
    /\ raced' = (pending.disks > 0)
    /\ overlapped' = (pending.latency > 0)
    /\ Hands(getMedFreqOut(latency'), AllFresh, 0)
    /\ UNCHANGED <<hostname, phase, socket, timers, cliVars, callVars>>

\* The sendRaw interval fires.
sendRaw ==
    /\ phase = "running"
    /\ Drained
    /\ "sendRaw" \in timers
    /\ battery' = Unset
    /\ latency' = Unset
    /\ disks' = <<>>
    /\ pending' = getMedFreqIssue(pending)
    /\ raced' = (pending.disks > 0)
    /\ overlapped' = (pending.latency > 0)
    /\ Hands(getMedFreqOut(latency'), AllFresh, 0)
    /\ UNCHANGED <<hostname, phase, socket, timers, cliVars, callVars>>

\* What every provider callback does with the n elements it was given and
\* the entries o it sent.
Sent(n, o) ==
    /\ phase = "running"
    /\ Hands(o, fresh, n)
    /\ UNCHANGED <<hostname, phase, socket, timers, raced, overlapped, cliVars, callVars>>

\* One of the pending queries of kind k completes. Queries carry no identity:
\* what a callback does depends on the result it is given and on the state it
\* runs in, so the completion of any pending query stands for each of them.
Completes(k) ==
    /\ pending[k] > 0
    /\ pending' = [pending EXCEPT ![k] = @ - 1]

currentLoadDone(data) ==
    /\ Completes("currentLoad")
    /\ Sent(0, forEachCpu(data))
    /\ UNCHANGED deltaVars

memDone(data) ==
    /\ Completes("mem")
    /\ Sent(0, memCallback(data))
    /\ UNCHANGED deltaVars

\* The first .then of getNetworkUse: the names of the usable interfaces are
\* what the second .then will be given.
networkInterfacesDone(interfaces) ==
    /\ pending.networkInterfaces > 0
    /\ pending' = [pending EXCEPT
                      !.networkInterfaces = @ - 1,
                      !.usable = Append(@, usableInterfaces(interfaces))]
    /\ Sent(0, <<>>)
    /\ UNCHANGED deltaVars

\* The si.networkStats queries pending per interface name after one more was
\* asked for every name of the list names.
Asked(p, names) ==
    [n \in DOMAIN p \cup {names[i] : i \in DOMAIN names} |->
        (IF n \in DOMAIN p THEN p[n] ELSE 0)
        + Cardinality({i \in DOMAIN names : names[i] = n})]

\* The second .then of getNetworkUse: si.networkStats is called for every
\* name of the list.
forEachInterface ==
    /\ pending.usable # <<>>
    /\ pending' = [pending EXCEPT
                      !.usable = Tail(@),
                      !.networkStats = Asked(@, Head(pending.usable))]
    /\ Sent(0, <<>>)
    /\ UNCHANGED deltaVars

\* The si.networkStats queries pending after one for iface completed.
Answered(p, iface) ==
    [n \in {m \in DOMAIN p : m # iface \/ p[m] > 1} |->
        IF n = iface THEN p[n] - 1 ELSE p[n]]

networkStatsDone(iface, data) ==
    /\ Drained
    /\ iface \in DOMAIN pending.networkStats
    /\ pending' = [pending EXCEPT !.networkStats = Answered(@, iface)]
    /\ Sent(0, networkStatsCallback(iface, data))
    /\ UNCHANGED deltaVars

\* getDiskIO after await si.osInfo(): nothing on win32, si.disksIO elsewhere.
osInfoDone(platform) ==
    /\ pending.osInfo > 0
    /\ pending' = [pending EXCEPT
                      !.osInfo = @ - 1,
                      !.disksIO = IF platform = <<"w", "i", "n", "3", "2">> THEN @ ELSE @ + 1]
    /\ Sent(0, <<>>)
    /\ UNCHANGED deltaVars

disksIODone(data) ==
    /\ Drained
    /\ Completes("disksIO")
    /\ Sent(0, disksIOCallback(data))
    /\ UNCHANGED deltaVars

inetLatencyDone(ms) ==
    LET c == latencyCallback(ms, latency)
    IN  /\ Drained
        /\ Completes("latency")
        /\ latency' = c.latency
        /\ Sent(1, c.out)
        /\ UNCHANGED <<disks, battery>>

fsSizeDone(mounted) ==
    LET c == forEachDevice(mounted, disks)
    IN  /\ Drained
        /\ Completes("disks")
        /\ disks' = c.disks
        /\ Sent(Len(mounted), c.out)
        /\ UNCHANGED <<latency, battery>>

batteryDone(data) ==
    LET c == batteryCallback(data, battery)
    IN  /\ Drained
        /\ Completes("battery")
        /\ battery' = c.battery
        /\ Sent(IF data.hasbattery THEN 1 ELSE 0, c.out)
        /\ UNCHANGED <<latency, disks>>

\* The handler given to service.run: console.log('stopping...'); udp.close();
\* service.stop(). service.stop() ends the process: the timers, the pending
\* provider callbacks and the pending completion callbacks go with it.
Stop ==
    /\ phase = "running"
    /\ Drained
    /\ socket' = "closed"
    /\ phase' = "exited"
    /\ timers' = {}
    /\ pending' = NonePending
    /\ inflight' = 0
    /\ console' = 0
    /\ out' = <<>>
    /\ observed' = 0
    /\ UNCHANGED <<hostname, deltaVars, raced, overlapped, fresh, gauge, cliVars, callVars>>

Hostnames == {<<"h", "1">>, <<"a", ".", "b">>}
NoAction == [kind |-> "none", options |-> NoOptions]
NoCall == [metric |-> <<>>, value |-> Undefined, type |-> <<>>]

\* The state the modules were loaded in, before the dispatch.
Loaded ==
    /\ hostname \in Hostnames
    /\ socket = "open"
    /\ action = NoAction
    /\ phase = "start"
    /\ timers = {}
    /\ latency = Unset
    /\ disks = <<>>
    /\ battery = Unset
    /\ pending = NonePending
    /\ raced = FALSE
    /\ overlapped = FALSE
    /\ fresh = AllFresh
    /\ observed = 0
    /\ inflight = 0
    /\ console = 0
    /\ out = <<>>
    /\ gauge = 0
    /\ steps = 0

Init ==
    /\ Loaded
    /\ hostname = <<"h", "1">>
    /\ argv = <<"node", "index.js", "--run">>
    /\ callArgs = NoCall
    /\ tagList = Undefined
    /\ callerTags = Undefined
    /\ results = <<>>

\* The behaviours explored are those of up to MaxSteps steps: the step a
\* specification takes is counted.
Tick == steps < MaxSteps /\ steps' = steps + 1

\* The steps of the program: what the event loop may run next.
Next ==
    \/ Tick /\ Dispatch
    \/ Tick /\ \E uptime \in Uptimes : getHighFreq(uptime)
    \/ Tick /\ getMedFreq
    \/ Tick /\ sendRaw
    \/ Tick /\ \E data \in Loads : currentLoadDone(data)
    \/ Tick /\ \E data \in Mems : memDone(data)
    \/ Tick /\ \E interfaces \in Interfaces : networkInterfacesDone(interfaces)
    \/ Tick /\ forEachInterface
    \/ Tick /\ \E iface \in DOMAIN pending.networkStats, data \in NetworkStats :
                   networkStatsDone(iface, data)
    \/ Tick /\ \E platform \in Platforms : osInfoDone(platform)
    \/ Tick /\ \E data \in DisksIO : disksIODone(data)
    \/ Tick /\ \E ms \in LatencyReadings : inetLatencyDone(ms)
    \/ Tick /\ \E mounted \in FsResults : fsSizeDone(mounted)
    \/ Tick /\ \E data \in BatteryResults : batteryDone(data)
    \/ Tick /\ \E err \in BOOLEAN : SendDone(err)
    \/ Tick /\ Stop

Spec == Init /\ [][Next]_vars

(***************************************************************************)
(* SpecCli: the command-line dispatch over every argument list of up to    *)
(* MaxArgs arguments.                                                      *)
(***************************************************************************)
Tokens == {"--add", "--remove", "--run", "alice", "secret"}
ArgLists == UNION {[1..n -> Tokens] : n \in 0..MaxArgs}

InitCli ==
    /\ Loaded
    /\ hostname = <<"h", "1">>
    /\ argv \in {<<"node", "index.js">> \o args : args \in ArgLists}
    /\ callArgs = NoCall
    /\ tagList = Undefined
    /\ callerTags = Undefined
    /\ results = <<>>

SpecCli == InitCli /\ [][Tick /\ Dispatch]_vars

(***************************************************************************)
(* SpecSend: statsdFormat and send as functions, over the arguments a      *)
(* caller may pass, in a program started with --run. tagList is the array  *)
(* a caller holds and passes as moreTags to every call of encodeSend.      *)
(***************************************************************************)
Types == allowedMetrics \cup {<<"x">>, <<>>}
SampleValues == {Num(42 * Unit), Str(<<"+", "5">>)}
RawTags ==
    {[name |-> Str(<<"c", "p", "u">>), value |-> Num(0)],
     [name |-> Str(<<"m", "y", " ", "t", "a", "g">>), value |-> Str(<<"a", ":", "b", ".", "c">>)],
     [name |-> Str(<<"l", "o", "a", "d">>), value |-> Num(Unit + Unit \div 2)]}
RawTagLists == UNION {[1..n -> RawTags] : n \in 0..MaxTags}
\* [tag(name, value), ...]
TagArray(raw) == Arr([i \in DOMAIN raw |-> tag(raw[i].name, raw[i].value)])

InitSend ==
    /\ Loaded
    /\ argv = <<"node", "index.js", "--run">>
    /\ callArgs \in [metric : {S_cpu_usage}, value : SampleValues, type : Types]
    /\ tagList \in {Undefined} \cup {TagArray(raw) : raw \in RawTagLists}
    /\ callerTags = tagList
    /\ results = <<>>

\* send(statsdFormat(metric, value, type, tagList)): statsdFormat is given
\* the array the caller holds, and leaves it as moreTags.push left it.
encodeSend ==
    LET r == statsdFormat(callArgs.metric, callArgs.value, callArgs.type, tagList)
        o == <<Emit("statsdFormat", <<>>, Undefined, Undefined, callArgs.value, r)>>
    IN  /\ phase = "running"
        /\ results' = Append(results, r)
        /\ tagList' = r.moreTags
        /\ UNCHANGED pending
        /\ Hands(o, fresh, 0)
        /\ UNCHANGED <<hostname, phase, socket, timers, deltaVars, raced, overlapped, cliVars,
                       callArgs, callerTags>>

\* send([statsdFormat(..., [tags]), statsdFormat(..., [tags])]), each call
\* with an array literal of its own.
encodeSendPair ==
    LET r == statsdFormat(callArgs.metric, callArgs.value, callArgs.type, callerTags)
    IN  /\ phase = "running"
        /\ UNCHANGED pending
        /\ Hands(<<EmitArray("statsdFormat", <<r, r>>)>>, fresh, 0)
        /\ UNCHANGED <<hostname, phase, socket, timers, deltaVars, raced, overlapped, cliVars,
                       callVars>>

NextSend ==
    \/ Tick /\ Dispatch
    \/ Tick /\ Len(results) < MaxCalls /\ encodeSend
    \/ Tick /\ encodeSendPair
    \/ Tick /\ \E err \in BOOLEAN : SendDone(err)
    \/ Tick /\ Stop

SpecSend == InitSend /\ [][NextSend]_vars

(***************************************************************************)
(* Vocabulary of the properties.                                           *)
(***************************************************************************)
\* a === b for two values: the same type and the same value.
Same(a, b) == a.typeof = b.typeof /\ a = b

\* The positions at which sub occurs in s.
Occurrences(s, sub) ==
    {i \in 1..(Len(s) - Len(sub) + 1) : SubSeq(s, i, i + Len(sub) - 1) = sub}
EndsWith(s, sub) ==
    Len(sub) <= Len(s) /\ SubSeq(s, Len(s) - Len(sub) + 1, Len(s)) = sub
StartsWith(s, sub) == Len(sub) <= Len(s) /\ SubSeq(s, 1, Len(sub)) = sub
Count(s, c) == Cardinality({i \in DOMAIN s : s[i] = c})

\* The four statsd metric types.
StatsdTypes == {<<"c">>, <<"s">>, <<"g">>, <<"m", "s">>}
\* The characters the wire format gives a meaning, and the space.
Separators == {".", ":", "|", "\n", " "}
NoSeparator(s) == \A i \in DOMAIN s : s[i] \notin Separators

\* The text of the host-identity tag of this host.
HostTag == <<"_", "t", "_", "h", "o", "s", "t", "n", "a", "m", "e", ".">> \o ReplaceAll(ReplaceAll(hostname, ".", "-"), " ", "-")

RECURSIVE DotJoined(_)
DotJoined(texts) ==
    IF texts = <<>> THEN <<>>
    ELSE Head(texts) \o (IF Len(texts) = 1 THEN <<>> ELSE <<".">> \o DotJoined(Tail(texts)))

\* metric.<tag>. ... .<host tag>:<value>|<type> for the tags the caller built.
LineOf(metric, value, type, tags) ==
    LET given == IF IsUndefined(tags) THEN <<>> ELSE tags.v
        texts == [i \in DOMAIN given |->
                    <<"_", "t", "_">> \o Template(given[i].tag) \o <<".">> \o Template(given[i].value)]
    IN  metric \o <<".">> \o DotJoined(Append(texts, HostTag))
               \o <<":">> \o Template(value) \o <<"|">> \o type

\* The calls of statsdFormat that returned a line.
Returned == {i \in DOMAIN results : ~results[i].threw}

\* C1: every line statsdFormat returns for a type among c, s, g, ms is
\* metric.<tags>:<value>|<type> with the caller's tags in call order and the
\* host-identity tag exactly once, as the last tag, also when the tag list
\* was passed to an earlier call.
C1_HostTagOnceAndLast ==
    \A i \in Returned :
        /\ results[i].line = LineOf(callArgs.metric, callArgs.value, callArgs.type, callerTags)
        /\ Cardinality(Occurrences(results[i].line, HostTag)) = 1

\* C4: two calls of statsdFormat with the same metric, value, type and the
\* same tag list object return identical strings, and the call leaves its
\* tags argument as it was.
C4_Idempotent ==
    /\ \A i, j \in DOMAIN results :
          /\ results[i].threw = results[j].threw
          /\ results[i].line = results[j].line
    /\ Same(tagList, callerTags)

\* The entries of out the calls of a caller made.
FromCall == {i \in DOMAIN out : out[i].src = "statsdFormat"}

\* C6: for a type other than c, s, g, ms statsdFormat throws and returns no
\* line, nothing is sent for the sample, and the tag list, latency, disks and
\* battery are as they were.
C6_InvalidTypeAborts ==
    [][(callArgs.type \notin StatsdTypes /\ phase = "running" /\ results' # results) =>
          /\ \A i \in DOMAIN results' : results'[i].threw /\ results'[i].line = <<>>
          /\ FromCall' # {}
          /\ \A i \in FromCall' : out'[i].threw /\ out'[i].dgrams = <<>>
          /\ inflight' = inflight
          /\ Same(tagList', tagList)
          /\ UNCHANGED <<latency, disks, battery>>
      ]_vars

\* C6 witness: a call with a type outside the four was made.
C6_Witness ==
    /\ callArgs.type \notin StatsdTypes
    /\ results # <<>>
    /\ FromCall # {}

\* C7: in every line statsdFormat returns, the rendered name and the
\* rendered value of every tag, the hostname tag included, hold none of
\* '.', ':', '|', newline and space.
C7_NoSeparatorInTags ==
    \A i \in Returned :
        \A j \in DOMAIN results[i].tags :
            /\ NoSeparator(Template(results[i].tags[j].tag))
            /\ NoSeparator(Template(results[i].tags[j].value))

\* The entries of out a callback of a medium-frequency provider sent.
FromCallback == {i \in DOMAIN out : out[i].src \in {"inetLatency", "fsSize", "battery"}}

\* A difference as the delta tracker writes it: an explicit '+' when it is
\* non-negative, the plain number when it is negative.
DeltaText(d) == IF d >= 0 THEN Str(<<"+">> \o NumToString(d)) ELSE Num(d)

\* C2: the first observation of a mount sends the absolute reading; an
\* observation of a mount seen before sends the reading minus the previous
\* reading of that mount, with a leading '+' when that is non-negative.
C2_DiskDelta ==
    \A i \in FromCallback :
        out[i].src = "fsSize" =>
            Same(out[i].value, IF IsUndefined(out[i].prev)
                               THEN out[i].reading
                               ELSE DeltaText(out[i].reading.v - out[i].prev.v))

\* The value stored for key k.
Stored(k) ==
    IF k = S_latency THEN Num(latency)
    ELSE IF k = S_battery THEN Num(battery)
    ELSE IF k \in DOMAIN disks THEN Num(disks[k]) ELSE Undefined

\* C3: after every completed observation of a latency, disk or battery
\* reading the value stored for its key is the absolute reading just observed.
C3_StoredIsLastReading ==
    \A i \in FromCallback :
        (\A j \in FromCallback : out[j].key = out[i].key => j <= i)
            => Same(Stored(out[i].key), out[i].reading)

\* C5: the first sample sent for a key after sendRaw cleared the delta state
\* carries a first-observation value, the absolute reading or the baseline 0
\* of latency, whatever was pending when sendRaw ran.
C5_FirstAfterResync ==
    \A i \in DOMAIN out :
        out[i].first =>
            /\ ~out[i].threw
            /\ Same(out[i].value, IF out[i].key = S_latency THEN Num(0) ELSE out[i].reading)
            /\ EndsWith(out[i].msg.v, <<":">> \o Template(out[i].value) \o <<"|", "g">>)

\* C5 witness: sendRaw ran while a filesystem query was pending, and the
\* callback of a filesystem query then sent the first sample of a mount
\* while the other query is still pending.
C5_Witness ==
    /\ raced
    /\ pending.disks >= 1
    /\ \E i \in FromCallback : out[i].first /\ out[i].src = "fsSize"

\* C8: --add registers with username and password as given after it,
\* --remove unregisters, --run starts the sampling loop, anything else prints
\* the usage; one of the four is taken.
C8_Dispatch ==
    action.kind # "none" =>
        /\ action.kind \in {"add", "remove", "run", "usage"}
        /\ action.kind = "add" <=> (Len(argv) >= 3 /\ argv[3] = "--add")
        /\ action.kind = "remove" <=> (Len(argv) >= 3 /\ argv[3] = "--remove")
        /\ action.kind = "run" <=> (Len(argv) >= 3 /\ argv[3] = "--run")
        /\ action.kind = "run" <=> phase = "running"
        /\ action.kind = "add" =>
              /\ action.options.username =
                    IF Len(argv) >= 4 THEN argv[4] ELSE NotSet
              /\ IF Len(argv) >= 5
                 THEN action.options.password = argv[5]
                 ELSE action.options.password \in {NotSet, "undefined"}

RECURSIVE NewlineJoined(_)
NewlineJoined(lines) ==
    IF lines = <<>> THEN <<>>
    ELSE Head(lines) \o (IF Len(lines) = 1 THEN <<>> ELSE <<"\n">> \o NewlineJoined(Tail(lines)))
\* One datagram for a message: its lines, each followed by a newline but the
\* last.
Payload(message) == IF message.typeof = "object" THEN NewlineJoined(message.v) ELSE message.v

\* C9: every call of send hands udp.send one datagram, the lines of the
\* message joined by newlines; a completion that reports an error logs it and
\* does nothing else: no datagram is sent again or kept, and latency, disks,
\* battery, the timers and the pending queries are as before.
C9_FireAndForget ==
    [][/\ \A i \in DOMAIN out' : ~out'[i].threw => out'[i].dgrams = <<Payload(out'[i].msg)>>
       /\ inflight' > inflight =>
             inflight' = inflight + Cardinality({i \in DOMAIN out' : ~out'[i].threw})
       /\ console' = 1 =>
             /\ inflight' = inflight - 1
             /\ out' = <<>>
             /\ UNCHANGED <<latency, disks, battery, timers, pending, socket>>
      ]_vars

\* C9 witness: the completion of a send reported an error, which was logged,
\* while another datagram is in flight, queries are pending and the timers
\* are armed.
C9_Witness ==
    /\ console = 1
    /\ inflight >= 1
    /\ pending.latency + pending.disks + pending.battery >= 1
    /\ timers = {"getHighFreq", "getMedFreq", "sendRaw"}

\* The readings the providers may report for key k, as the samplers round them.
ReadingsOf(k) ==
    IF k = S_latency THEN LatencyReadings
    ELSE IF k = S_battery THEN {r.percent : r \in {b \in BatteryResults : b.hasbattery}}
    ELSE UNION {{Round3(m[i].use) : i \in {j \in DOMAIN m : RemoveFirst(m[j].mount, ":") = k}}
                : m \in FsResults}

\* A decimal numeral with an optional sign.
Numeral(text) ==
    LET body == IF text # <<>> /\ text[1] \in {"+", "-"} THEN Tail(text) ELSE text
        digit == {"0", "1", "2", "3", "4", "5", "6", "7", "8", "9"}
    IN  /\ body # <<>>
        /\ \A i \in DOMAIN body : body[i] \in digit \cup {"."}
        /\ body[1] \in digit /\ body[Len(body)] \in digit
        /\ Count(body, ".") <= 1

MetricOf(src) ==
    IF src = "fsSize" THEN S_disk_usage
    ELSE IF src = "battery" THEN S_battery ELSE S_latency

\* metric._t_ ... _t_hostname.<host>:<value>|g, one ':' and one '|'.
WellFormed(e) ==
    /\ StartsWith(e.msg.v, MetricOf(e.src) \o <<".", "_", "t", "_">>)
    /\ EndsWith(e.msg.v, HostTag \o <<":">> \o Template(e.value) \o <<"|", "g">>)
    /\ Count(e.msg.v, ":") = 1
    /\ Count(e.msg.v, "|") = 1
    /\ Count(e.msg.v, "\n") = 0
    /\ Numeral(Template(e.value))

\* The difference a - b of two readings as the program computes and writes
\* it.
Delta(a, b) == signed(Minus(a, b))

\* C10: in every interleaving of timer ticks, provider callbacks and send
\* completions no callback throws, each callback of a latency, disk or
\* battery query sends one well-formed line per element it was given, and
\* the value of the line is the absolute reading or a difference between the
\* reading and a value stored for the same key: unset, or a reading of that
\* key.
C10_RacesOnlyStale ==
    /\ \A i \in DOMAIN out : ~out[i].threw /\ out[i].dgrams = <<Payload(out[i].msg)>>
    /\ Cardinality(FromCallback) = observed
    /\ \A i \in FromCallback :
          LET e == out[i]
              unset == IsUndefined(e.prev) \/ Same(e.prev, Num(Unset))
          IN  /\ WellFormed(e)
              /\ e.key \in Keys /\ e.reading.v \in ReadingsOf(e.key)
              /\ unset \/ e.prev.v \in ReadingsOf(e.key)
              /\ IF unset /\ e.src # "inetLatency"
                 THEN Same(e.value, e.reading)
                 ELSE \/ Same(e.value, Delta(e.reading.v, e.prev.v))
                      \/ Same(e.value, Delta(e.prev.v, e.reading.v))
    /\ latency \in {Unset} \cup ReadingsOf(S_latency)
    /\ battery \in {Unset} \cup ReadingsOf(S_battery)
    /\ \A m \in DOMAIN disks : disks[m] \in ReadingsOf(m)

\* C10 witness: two latency queries were pending together; the callback of
\* one sent a delta against a stored reading while the other is still pending.
C10_Witness ==
    /\ pending.latency >= 1
    /\ \E i \in FromCallback :
          /\ out[i].src = "inetLatency"
          /\ ~Same(out[i].prev, Num(Unset))
          /\ Same(out[i].value, Num(out[i].reading.v - out[i].prev.v))

\* C11: as long as no latency query was issued while another was pending
\* since the start or the last sendRaw, the baseline 0 is sent once after
\* the start and after each sendRaw, the
\* latency gauge rebuilt from the lines sent since then equals the reading
\* of the last completed query, and no callback computes its value from the
\* unset -1.
C11_GaugeIsLastReading ==
    ~overlapped =>
        /\ \A i \in DOMAIN out :
              out[i].src = "getLatency" => out[i].first /\ Same(out[i].value, Num(0))
        /\ \A i \in FromCallback :
              out[i].src = "inetLatency" =>
                  /\ gauge = out[i].reading.v
                  /\ ~Same(out[i].prev, Num(Unset))

\* C12: the udp socket is closed by no send and by no completion callback of
\* a send; the one step that closes it is the stop handler, which hands
\* nothing to send and ends the process, and once the socket is closed no
\* datagram is handed to udp.send.
C12_ClosedOnlyByStop ==
    [][/\ socket' # socket =>
             /\ socket = "open" /\ socket' = "closed"
             /\ phase = "running" /\ phase' = "exited"
             /\ out' = <<>> /\ inflight' = 0 /\ timers' = {}
       /\ socket = "closed" => out' = out /\ inflight' <= inflight /\ pending' = pending
       /\ inflight' > inflight => socket = "open" /\ socket' = "open"
      ]_vars

\* C12 witness: the stop handler closed the socket after a latency sample
\* and a disk sample were sent.
C12_Witness ==
    /\ socket = "closed"
    /\ phase = "exited"
    /\ ~fresh[S_latency]
    /\ ~fresh[<<"/">>]

====
